---- MODULE Spec2Model ----
(***************************************************************************)
(* Model of models/experimental.py: the checkpoint loaders                 *)
(* (torch_safe_load, attempt_load, attempt_load_weights) and the channel   *)
(* arithmetic of MixConv2d.                                                *)
(*                                                                         *)
(* A checkpoint file is a record of what torch.load would deserialize from *)
(* it; a loaded nn.Module is a record of the attributes the loaders read   *)
(* or write.  A Python call is run as a small state machine: pc is the     *)
(* position in the function body and result is what the call produced      *)
(* (a return value or the exception that left the function).               *)
(***************************************************************************)
EXTENDS Integers, Sequences, FiniteSets, TLC

VARIABLES
    fn,        \* the function under execution
    weights,   \* argument `weights`, normalised to the list the for-loop walks
    isList,    \* isinstance(weights, list)
    inplace,   \* argument `inplace`
    fuse,      \* argument `fuse`
    pc,        \* position in the function body
    i,         \* 1-based position of the for-loop over the weights
    tsl,       \* the frame of the torch_safe_load call in progress / last made
    model,     \* the Ensemble (nn.ModuleList) under construction: its members
    ens,       \* attributes set on the Ensemble object itself
    result,    \* outcome of the call
    mc         \* the MixConv2d under construction

vars == <<fn, weights, isList, inplace, fuse, pc, i, tsl, model, ens, result, mc>>

loaderVars == <<fn, weights, isList, inplace, fuse, pc, i, tsl, model, ens, result>>

----------------------------------------------------------------------------
(* Bounds of the explored input space *)

\* longest list of weights passed to a loader
MaxWeights == 3

\* class counts a checkpoint may carry
NcSet == {1, 2}

\* number of detection layers a head may have
NlSet == {1, 2}

\* stride tensors a checkpoint model may carry; <<>> stands for "no attribute"
NoStride == <<>>

StrideSet == {NoStride, <<16>>, <<8, 16, 32>>, <<64>>}

\* largest number of output channels c2 of a MixConv2d
MaxC2 == 6

\* largest number of kernels in the tuple k of a MixConv2d
MaxK == 3

\* kernel sizes
KernelSet == {1, 3, 5}

\* input channel counts c1
C1Set == {3, 4}


\* classes of the modules inside a checkpoint's model that the loaders look at
HeadClasses == {"Detect", "Segment", "V8_Detect"}

\* outcomes of one torch.load call: the pickle loads, it raises
\* ModuleNotFoundError (e.name is the outcome), or it raises something else
MissingModules == {"omegaconf", "yaml"}

LoadOutcomes == {"ok", "error"} \cup MissingModules

----------------------------------------------------------------------------
(* Python values *)

\* no value / no attribute
None == "None"

\* the tensor an anchor_grid buffer is when it is not a list
TensorGrid(nl) == [kind |-> "tensor", len |-> nl]

\* a Python list of n tensors
ListGrid(n) == [kind |-> "list", len |-> n]

\* a module without an anchor_grid attribute
NoGrid == [kind |-> "absent", len |-> 0]

\* an attribute that does not exist on the object
Unset == [set |-> FALSE, val |-> FALSE]

\* a boolean attribute that was assigned v
Attr(v) == [set |-> TRUE, val |-> v]

\* an nn.Module inside a model: its class and the attributes the
\* compatibility updates touch
Module(cls, grid, nl) ==
    [cls |-> cls, inplace |-> Unset, anchor_grid |-> grid, nl |-> nl,
     npbs |-> "unset", rsf |-> "unset"]

\* a detection head as pickled: anchor_grid is a tensor (old checkpoints) or
\* already a list of nl tensors
HeadOf(cls, kind, nl) ==
    Module(cls, IF kind = "list" THEN ListGrid(nl) ELSE TensorGrid(nl), nl)

Heads ==
    { HeadOf(c, g, n) : c \in HeadClasses, g \in {"tensor", "list"}, n \in NlSet }

\* the module tree of a checkpoint's model in model.modules() order: the
\* root Model, a Conv, an activation, an Upsample pickled by an old torch
\* and the detection head
ModulesOf(head) ==
    << Module("Model", NoGrid, 0), Module("Conv", NoGrid, 0),
       Module("SiLU", NoGrid, 0), Module("Upsample", NoGrid, 0), head >>

\* a checkpoint file: what torch.load returns for it, reduced to the module
\* `ckpt.get('ema') or ckpt['model']` selects (line 126) and to whether the
\* file has train_args.  path identifies the file; names and yaml of its
\* model are whatever this file holds, so they are told apart by the path.
Checkpoint(path, nc, stride, head, train_args) ==
    [path |-> path, nc |-> nc, stride |-> stride, head |-> head,
     train_args |-> train_args]

\* value of the Ensemble's own attributes before line 149 sets them
NoEns == [set |-> FALSE, names |-> 0, nc |-> 0, yaml |-> 0, stride |-> <<>>]

\* the call has not finished
Running == [kind |-> "running", exc |-> None, value |-> <<>>]

Returned(kind, value) == [kind |-> kind, exc |-> None, value |-> value]

Raised(exc) == [kind |-> "raise", exc |-> exc, value |-> <<>>]

\* frame of torch_safe_load: the file, the first load's outcome, whether the
\* warning was logged, what check_requirements was called with, how many
\* torch.load calls were made on the file and whether the call returned
NoCall ==
    [file |-> 0, first |-> None, warned |-> FALSE, installed |-> None,
     loads |-> 0, returned |-> FALSE]


----------------------------------------------------------------------------
(* Python's type tests, lines 135-143 *)

\* type(m): a class object.  The class of a class object is `type`.
TypeOf(m) == [cls |-> "type", name |-> m.cls]

\* `t in (A, B, ...)` and `t is A` for a class object t
ClassIn(t, classes) == t.name \in classes

\* isinstance(obj, (A, B, ...)): the class of obj is one of A, B, ...
\* (the classes modelled here do not derive from one another)
IsInstance(obj, classes) == obj.cls \in classes

\* the tuple of line 136
InplaceClasses ==
    {"Hardswish", "LeakyReLU", "ReLU", "ReLU6", "SiLU", "Model", "V8_Detect",
     "V8_Segment"}

\* the tuple of line 138
DetectClasses ==
    {"Detect", "Decoupled_Detect", "Kpt_Detect", "IKeypoint", "ASFF_Detect",
     "IDetect", "Segment", "IBin", "IAuxDetect"}

\* body of the loop of lines 134-144 for one module m
CompatUpdate(m, inpl) ==
    LET t == TypeOf(m) IN
    IF ClassIn(t, InplaceClasses)
    THEN LET m1 == [m EXCEPT !.inplace = Attr(inpl)] IN
         IF IsInstance(t, DetectClasses) /\ m1.anchor_grid.kind # "list"
         THEN [m1 EXCEPT !.anchor_grid = ListGrid(m1.nl)]
         ELSE m1
    ELSE IF t.name = "Conv"
    THEN [m EXCEPT !.npbs = "empty"]
    ELSE IF t.name = "Upsample" /\ m.rsf = "unset"
    THEN [m EXCEPT !.rsf = "None"]
    ELSE m

\* the loop of lines 134-144 over the modules of one member of the Ensemble
\* (the Ensemble object itself, also yielded by modules(), matches no branch)
CompatModel(mdl, inpl) ==
    [mdl EXCEPT !.mods = [j \in 1..Len(mdl.mods) |-> CompatUpdate(mdl.mods[j], inpl)]]

----------------------------------------------------------------------------
(* Building the Ensemble *)

\* lines 126-131 (and 188-197): the module taken out of the checkpoint,
\* with pt_path attached, stride defaulted to tensor([32.]) and put in eval
\* mode, fused when asked to
LoadedModel(ck, ptPath, fused) ==
    [path |-> ck.path, names |-> ck.path, yaml |-> ck.path, nc |-> ck.nc,
     stride |-> IF ck.stride = NoStride THEN <<32>> ELSE ck.stride,
     pt_path |-> ptPath, training |-> FALSE, fused |-> fused, args |-> FALSE,
     mods |-> ModulesOf(ck.head)]

\* a loop that inserted each model at the front
PrependMember(ens_, m) == <<m>> \o ens_

\* model.append(...), line 131
AppendMember(ens_, m) == Append(ens_, m)

RECURSIVE SeqMax(_)
\* tensor.max() of a non-empty 1-d tensor
SeqMax(s) ==
    IF Len(s) = 1 THEN s[1]
    ELSE LET r == SeqMax(Tail(s)) IN IF s[1] >= r THEN s[1] ELSE r

RECURSIVE ArgMaxFrom(_, _, _)
\* scan of torch.argmax from position j with the best position b so far:
\* a later element replaces the best only when strictly larger
ArgMaxFrom(s, j, b) ==
    IF j > Len(s) THEN b
    ELSE ArgMaxFrom(s, j + 1, IF s[j] > s[b] THEN j ELSE b)

RECURSIVE ArgMaxLastFrom(_, _, _)
\* a scan that lets a later equal element replace the best
ArgMaxLastFrom(s, j, b) ==
    IF j > Len(s) THEN b
    ELSE ArgMaxLastFrom(s, j + 1, IF s[j] >= s[b] THEN j ELSE b)

\* an argmax returning the last maximal element
ArgMaxLast(s) == ArgMaxLastFrom(s, 2, 1)

\* torch.argmax of a non-empty 1-d tensor, 1-based: the first maximal element
ArgMax(s) == ArgMaxFrom(s, 2, 1)

\* line 151: the stride of the member with the largest stride.max()
MaxStride(ens_) ==
    ens_[ArgMax([j \in 1..Len(ens_) |-> SeqMax(ens_[j].stride)])].stride

\* the test of line 152 written with any() in place of all()
AnyClassCount(ens_) == \E j \in 1..Len(ens_) : ens_[1].nc = ens_[j].nc

\* line 152: all(model[0].nc == m.nc for m in model)
SameClassCounts(ens_) == \A j \in 1..Len(ens_) : ens_[1].nc = ens_[j].nc

\* lines 149-151: the attributes copied onto the Ensemble
EnsembleAttrs(ens_) ==
    [set |-> TRUE, names |-> ens_[1].names, nc |-> ens_[1].nc,
     yaml |-> ens_[1].yaml, stride |-> MaxStride(ens_)]

\* the `weights` argument as attached to pt_path: the paths listed
PtPath == [j \in 1..Len(weights) |-> weights[j].path]


----------------------------------------------------------------------------
(* Inputs *)

\* the MixConv2d part is idle while a loader runs
NoMix ==
    [stage |-> "idle", c1 |-> 0, c2 |-> 0, k |-> <<>>, equal_ch |-> TRUE,
     c_ |-> <<>>, groups |-> <<>>, out |-> 0, exc |-> None]

\* the head of the checkpoints of the specifications that do not vary it
PlainHead == HeadOf("Detect", "list", 1)

\* lists of n checkpoint files with contents from the set C; the j-th listed
\* file has path j
WeightLists(C) ==
    UNION { { [j \in 1..n |-> [c[j] EXCEPT !.path = j]] : c \in [1..n -> C] }
            : n \in 0..MaxWeights }

\* state at the entry of a loader f called with checkpoints of contents C
\* (a bare weight is the one-element list the for-loop makes of it)
InitLoader(f, C) ==
    /\ fn = f
    /\ weights \in WeightLists(C)
    /\ isList \in BOOLEAN
    /\ (~isList) => Len(weights) = 1
    /\ inplace \in BOOLEAN
    /\ fuse \in BOOLEAN
    /\ pc = IF Len(weights) = 0 THEN "compat" ELSE "load"
    /\ i = 1
    /\ tsl = NoCall
    /\ model = <<>>
    /\ ens = NoEns
    /\ result = Running
    /\ mc = NoMix

----------------------------------------------------------------------------
(* torch_safe_load, lines 92-114 *)

\* lines 103-106: the file is located and torch.load is called on it.  The
\* load returns the checkpoint, raises ModuleNotFoundError (handled at line
\* 107) or raises another exception, which leaves the loader.
TorchLoad ==
    /\ pc = "load"
    /\ \E o \in LoadOutcomes :
        /\ tsl' = [file |-> weights[i].path, first |-> o, warned |-> FALSE,
                   installed |-> None, loads |-> 1, returned |-> (o = "ok")]
        /\ pc' = IF o = "ok" THEN "ckpt"
                 ELSE IF o \in MissingModules THEN "except" ELSE "done"
        /\ result' = IF o = "error" THEN Raised("LoadError") ELSE result
    /\ UNCHANGED <<fn, weights, isList, inplace, fuse, i, model, ens, mc>>

\* line 108: the warning is logged for this missing module
Warns(name) == name = "omegaconf"

\* lines 107-114: the handler of ModuleNotFoundError e, with e.name the
\* outcome recorded in the frame: the warning of lines 108-112, then
\* check_requirements(e.name), then the second torch.load on the same file
ModuleNotFound ==
    /\ pc = "except"
    /\ \E o \in {"ok", "error"} :
        /\ tsl' = [tsl EXCEPT !.warned = Warns(tsl.first),
                              !.installed = tsl.first,
                              !.loads = 2,
                              !.returned = (o = "ok")]
        /\ pc' = IF o = "ok" THEN "ckpt" ELSE "done"
        /\ result' = IF o = "ok" THEN result ELSE Raised("LoadError")
    /\ UNCHANGED <<fn, weights, isList, inplace, fuse, i, model, ens, mc>>

----------------------------------------------------------------------------
(* attempt_load, lines 118-153 *)

\* lines 126-131: the loaded checkpoint becomes a member of the Ensemble and
\* the for-loop of line 123 advances
AttemptLoadAppend ==
    /\ fn = "attempt_load"
    /\ pc = "ckpt"
    /\ model' = AppendMember(model, LoadedModel(weights[i], PtPath, fuse))
    /\ i' = i + 1
    /\ pc' = IF i = Len(weights) THEN "compat" ELSE "load"
    /\ UNCHANGED <<fn, weights, isList, inplace, fuse, tsl, ens, result, mc>>

\* lines 134-144: the compatibility updates over model.modules()
AttemptLoadCompat ==
    /\ fn = "attempt_load"
    /\ pc = "compat"
    /\ model' = [j \in 1..Len(model) |-> CompatModel(model[j], inplace)]
    /\ pc' = "return"
    /\ UNCHANGED <<fn, weights, isList, inplace, fuse, i, tsl, ens, result, mc>>

\* lines 146-153: a single member is returned as it is (model[-1] of an
\* empty ModuleList raises IndexError); otherwise names, nc, yaml and stride
\* are set on the Ensemble, the class counts are asserted equal and the
\* Ensemble is returned
EnsembleTail(ens_) ==
    IF Len(ens_) = 0
    THEN /\ result' = Raised("IndexError")
         /\ ens' = ens
    ELSE IF Len(ens_) = 1
    THEN /\ result' = Returned("model", ens_)
         /\ ens' = ens
    ELSE /\ ens' = EnsembleAttrs(ens_)
         /\ result' = IF SameClassCounts(ens_)
                      THEN Returned("ensemble", ens_)
                      ELSE Raised("AssertionError")

AttemptLoadReturn ==
    /\ fn = "attempt_load"
    /\ pc = "return"
    /\ EnsembleTail(model)
    /\ pc' = "done"
    /\ UNCHANGED <<fn, weights, isList, inplace, fuse, i, tsl, model, mc>>

\* checkpoints given to attempt_load: class count and stride vary
LoadFiles == { Checkpoint(0, nc, s, PlainHead, TRUE) : nc \in NcSet, s \in StrideSet }

Init == InitLoader("attempt_load", LoadFiles)

Next ==
    \/ TorchLoad
    \/ ModuleNotFound
    \/ AttemptLoadAppend
    \/ AttemptLoadCompat
    \/ AttemptLoadReturn

Spec == Init /\ [][Next]_vars


\* checkpoints whose detection heads vary: class, anchor_grid kind, nl
HeadFiles == { Checkpoint(0, 1, <<32>>, h, TRUE) : h \in Heads }

InitCompat == InitLoader("attempt_load", HeadFiles)

\* attempt_load over checkpoints with every kind of detection head
SpecCompat == InitCompat /\ [][Next]_vars

----------------------------------------------------------------------------
(* attempt_load_weights, lines 181-217 *)

\* names bound at module level: the imports of lines 5-14, LOGGER and the
\* functions and classes the file defines
ModuleNames ==
    {"math", "np", "torch", "nn", "Conv", "attempt_download",
     "check_requirements", "check_yaml", "logging", "LOGGER",
     "check_class_names", "Sum", "MixConv2d", "Ensemble", "torch_safe_load",
     "attempt_load", "attempt_load_one_weight", "attempt_load_weights"}

\* names local to attempt_load_weights: its parameters, the import of line
\* 183 and the variables it assigns
WeightsLocals ==
    {"weights", "device", "inplace", "fuse", "DEFAULT_CFG_DICT",
     "DEFAULT_CFG_KEYS", "model", "w", "ckpt", "args", "m", "t", "k"}

\* a name evaluates inside attempt_load_weights (no builtin has these names)
Resolves(name) == name \in WeightsLocals \cup ModuleNames

\* the tuple of line 202
WeightsInplaceClasses ==
    {"Hardswish", "LeakyReLU", "ReLU", "ReLU6", "SiLU", "Detect", "Segment"}

\* body of the loop of lines 200-205 for one module m
WeightsCompatUpdate(m, inpl) ==
    LET t == TypeOf(m) IN
    IF ClassIn(t, WeightsInplaceClasses)
    THEN [m EXCEPT !.inplace = Attr(inpl)]
    ELSE IF t.name = "Upsample" /\ m.rsf = "unset"
    THEN [m EXCEPT !.rsf = "None"]
    ELSE m

WeightsCompatModel(mdl, inpl) ==
    [mdl EXCEPT !.mods =
        [j \in 1..Len(mdl.mods) |-> WeightsCompatUpdate(mdl.mods[j], inpl)]]

\* lines 187-197: ckpt['train_args'] is read (KeyError when the checkpoint
\* has none), args and pt_path are attached and the model is appended
WeightsAppend ==
    /\ fn = "attempt_load_weights"
    /\ pc = "ckpt"
    /\ IF weights[i].train_args
       THEN /\ model' = AppendMember(model,
                  [LoadedModel(weights[i], PtPath, fuse) EXCEPT !.args = TRUE])
            /\ i' = i + 1
            /\ pc' = IF i = Len(weights) THEN "compat" ELSE "load"
            /\ result' = result
       ELSE /\ result' = Raised("KeyError")
            /\ pc' = "done"
            /\ UNCHANGED <<model, i>>
    /\ UNCHANGED <<fn, weights, isList, inplace, fuse, tsl, ens, mc>>

\* lines 200-217: the module loop and the return.  modules() yields at
\* least the Ensemble itself, and the first pass through line 202 evaluates
\* the names Detect and Segment to build the tuple: NameError when they do
\* not resolve.  Otherwise the updates are applied and the function ends as
\* attempt_load does.
WeightsTail ==
    /\ fn = "attempt_load_weights"
    /\ pc = "compat"
    /\ IF Resolves("Detect") /\ Resolves("Segment")
       THEN /\ model' = [j \in 1..Len(model) |-> WeightsCompatModel(model[j], inplace)]
            /\ EnsembleTail(model')
       ELSE /\ result' = Raised("NameError")
            /\ UNCHANGED <<model, ens>>
    /\ pc' = "done"
    /\ UNCHANGED <<fn, weights, isList, inplace, fuse, i, tsl, mc>>

\* checkpoints given to attempt_load_weights: with or without train_args
WeightsFiles ==
    { Checkpoint(0, nc, s, PlainHead, ta) :
        nc \in NcSet, s \in {NoStride, <<64>>}, ta \in BOOLEAN }

InitWeights == InitLoader("attempt_load_weights", WeightsFiles)

NextWeights ==
    \/ TorchLoad
    \/ ModuleNotFound
    \/ WeightsAppend
    \/ WeightsTail

SpecWeights == InitWeights /\ [][NextWeights]_vars


----------------------------------------------------------------------------
(* MixConv2d, lines 55-77 *)

RECURSIVE SeqSum(_)
\* sum of a sequence of integers
SeqSum(s) == IF Len(s) = 0 THEN 0 ELSE s[1] + SeqSum(Tail(s))

RECURSIVE SeqProd(_)
\* product of a sequence of integers
SeqProd(s) == IF Len(s) = 0 THEN 1 ELSE s[1] * SeqProd(Tail(s))

RECURSIVE Gcd(_, _)
\* math.gcd
Gcd(a, b) == IF b = 0 THEN a ELSE Gcd(b, a % b)

\* the 1E-6 of line 61, as 1 / Micro
Micro == 1000000

\* line 61: element j (0-based) of torch.linspace(0, n - 1E-6, c2).floor().
\* The exact value j * (n - 1E-6) / (c2 - 1) is floored; with one step the
\* tensor is [0].
LinspaceFloor(n, c2, j) ==
    IF c2 = 1 THEN 0
    ELSE (j * (n * Micro - 1)) \div ((c2 - 1) * Micro)

\* line 62: c_[g] = (i == g).sum(), g 0-based in the code, 1-based here
EqualChannels(n, c2) ==
    [g \in 1..n |-> Cardinality({ j \in 0..(c2 - 1) : LinspaceFloor(n, c2, j) = g - 1 })]

\* line 65: np.eye(n + 1, n, k=-1), entry (r, c) 0-based
Eye(r, c) == IF c = r - 1 THEN 1 ELSE 0

\* lines 65-68: entry (r, c), 0-based, of the matrix a for the kernels k:
\* eye minus eye rolled by one column, columns scaled by k ** 2, row 0 set
\* to 1
MatrixA(k, r, c) ==
    LET n == Len(k) IN
    IF r = 0 THEN 1
    ELSE (Eye(r, c) - Eye(r, (c - 1 + n) % n)) * (k[c + 1] * k[c + 1])

\* line 64: b = [c2] + [0] * n
VectorB(c2, r) == IF r = 0 THEN c2 ELSE 0

\* weight of branch g in the solution: the product of the other k ** 2
BranchWeight(k, g) ==
    SeqProd([j \in 1..Len(k) |-> IF j = g THEN 1 ELSE k[j] * k[j]])

\* common denominator of the solution
SolutionDen(k) == SeqSum([g \in 1..Len(k) |-> BranchWeight(k, g)])

\* line 69: np.linalg.lstsq(a, b)[0].  The system a x = b has the exact
\* solution x[g] = SolutionNum(c2, k)[g] / SolutionDen(k), which is then the
\* least-squares solution (residual 0, a of full column rank).
SolutionNum(c2, k) == [g \in 1..Len(k) |-> c2 * BranchWeight(k, g)]

\* a x = b holds exactly for the solution above, row by row
SolvesSystem(c2, k) ==
    \A r \in 0..Len(k) :
        SeqSum([g \in 1..Len(k) |-> MatrixA(k, r, g - 1) * SolutionNum(c2, k)[g]])
            = VectorB(c2, r) * SolutionDen(k)

\* line 69: .round() of num / den.  Off a tie the nearest integer; at an
\* exact tie the floating-point solution lies on either side of it.
Rounds(num, den) ==
    LET q == num \div den
        r == num % den
    IN  IF 2 * r < den THEN {q}
        ELSE IF 2 * r > den THEN {q + 1}
        ELSE {q, q + 1}

\* lines 64-69: the channel counts the equal-weight strategy can produce
EqualWeightChannels(c2, k) ==
    { c \in [1..Len(k) -> 0..c2] :
        \A g \in 1..Len(k) : c[g] \in Rounds(SolutionNum(c2, k)[g], SolutionDen(k)) }

\* lines 59-69: the values c_ can take
ChannelSplits(c2, k, equal_ch) ==
    IF equal_ch THEN {EqualChannels(Len(k), c2)} ELSE EqualWeightChannels(c2, k)

\* no entry of the exact solution lies halfway between two integers: the
\* rounding of line 69 does not depend on the last bits of the solver's
\* floating-point result
OffTies(c2, k) ==
    \A g \in 1..Len(k) : 2 * (SolutionNum(c2, k)[g] % SolutionDen(k)) # SolutionDen(k)

\* tuples k of 1..MaxK kernel sizes
KernelTuples == UNION { [1..n -> KernelSet] : n \in 1..MaxK }

InitMix ==
    /\ fn = "MixConv2d"
    /\ weights = <<>>
    /\ isList = FALSE
    /\ inplace = FALSE
    /\ fuse = FALSE
    /\ pc = "idle"
    /\ i = 0
    /\ tsl = NoCall
    /\ model = <<>>
    /\ ens = NoEns
    /\ result = Running
    /\ \E c1 \in C1Set, c2 \in 1..MaxC2, k \in KernelTuples, e \in BOOLEAN :
          /\ e \/ OffTies(c2, k)
          /\ mc = [NoMix EXCEPT !.stage = "new", !.c1 = c1, !.c2 = c2, !.k = k,
                                !.equal_ch = e]

\* lines 57-74, __init__: the split c_ is computed and one Conv2d of int(c_)
\* output channels and gcd(c1, int(c_)) groups is built per kernel, followed
\* by BatchNorm2d(c2)
MixConvInit ==
    /\ mc.stage = "new"
    /\ \E c \in ChannelSplits(mc.c2, mc.k, mc.equal_ch) :
          mc' = [mc EXCEPT !.stage = "built",
                           !.c_ = c,
                           !.groups = [g \in 1..Len(c) |-> Gcd(mc.c1, c[g])]]
    /\ UNCHANGED loaderVars

\* lines 76-77, forward: the branch outputs are concatenated along the
\* channel axis and given to BatchNorm2d(c2), which raises RuntimeError on
\* an input of another channel count
MixConvForward ==
    /\ mc.stage = "built"
    /\ LET ch == SeqSum(mc.c_) IN
          mc' = [mc EXCEPT !.stage = "done",
                           !.out = ch,
                           !.exc = IF ch = mc.c2 THEN None ELSE "RuntimeError"]
    /\ UNCHANGED loaderVars

NextMix ==
    \/ MixConvInit
    \/ MixConvForward

SpecMix == InitMix /\ [][NextMix]_vars

\* the closed form used for line 69 solves the system of lines 64-68
MixSolutionExact == mc.stage = "new" => SolvesSystem(mc.c2, mc.k)


----------------------------------------------------------------------------
(* Properties *)

\* the loader finished and every checkpoint listed was loaded and appended
\* (a failed load leaves the loader before its checkpoint is appended)
AllLoaded == pc = "done" /\ Len(model) = Len(weights)

\* the value returned holds one model per weight, in the order listed
InListedOrder ==
    /\ Len(result.value) = Len(weights)
    /\ \A j \in 1..Len(weights) : result.value[j].path = weights[j].path

\* every checkpoint listed has the class count of the first
EqualNc == \A j \in 1..Len(weights) : weights[j].nc = weights[1].nc

\* C1 as stated: with one checkpoint loaded, attempt_load returns that model
\* and no Ensemble; with k >= 2 checkpoints loaded, it returns an Ensemble
\* of exactly k models, one per weight in the order listed.
C1_AsStated ==
    AllLoaded =>
        /\ Len(weights) = 1 => (result.kind = "model" /\ InListedOrder)
        /\ Len(weights) >= 2 => (result.kind = "ensemble" /\ InListedOrder)

\* C1 amended: with one checkpoint loaded, attempt_load returns that model
\* and no Ensemble; with k >= 2 checkpoints loaded that all have the same
\* class count, it returns an Ensemble of exactly k models, one per weight
\* in the order listed.
C1_SingleOrEnsemble ==
    AllLoaded =>
        /\ Len(weights) = 1 => (result.kind = "model" /\ InListedOrder)
        /\ (Len(weights) >= 2 /\ EqualNc) =>
              (result.kind = "ensemble" /\ InListedOrder)

\* an Ensemble of three models was returned for a list of three weights
C1_Witness ==
    /\ fn = "attempt_load"
    /\ AllLoaded
    /\ isList
    /\ Len(weights) = 3
    /\ EqualNc
    /\ result.kind = "ensemble"

\* the largest value of a non-empty tensor
Largest(s) == CHOOSE x \in { s[j] : j \in 1..Len(s) } : \A j \in 1..Len(s) : s[j] <= x

\* member j has the largest stride value of all members, and no member
\* before it has one as large
FirstOfLargestStride(v, j) ==
    /\ \A l \in 1..Len(v) : Largest(v[l].stride) <= Largest(v[j].stride)
    /\ \A l \in 1..(j - 1) : Largest(v[l].stride) < Largest(v[j].stride)

\* C2: every Ensemble attempt_load returns has the names, nc and yaml of its
\* first member and the stride of the lowest-index member whose largest
\* stride value is maximal over the members.
C2_EnsembleAttributes ==
    (pc = "done" /\ result.kind = "ensemble") =>
        LET v == result.value IN
        /\ ens.set
        /\ ens.names = v[1].names
        /\ ens.nc = v[1].nc
        /\ ens.yaml = v[1].yaml
        /\ \E j \in 1..Len(v) :
              FirstOfLargestStride(v, j) /\ ens.stride = v[j].stride

\* an Ensemble was returned whose second and third members tie for the
\* largest stride value with different stride tensors, above the first
C2_Witness ==
    /\ fn = "attempt_load"
    /\ pc = "done"
    /\ result.kind = "ensemble"
    /\ Len(result.value) = 3
    /\ FirstOfLargestStride(result.value, 2)
    /\ Largest(result.value[3].stride) = Largest(result.value[2].stride)
    /\ result.value[3].stride # result.value[2].stride
    /\ ens.stride = result.value[2].stride

\* C3: attempt_load returns no Ensemble of members with different class
\* counts: with k >= 2 checkpoints loaded, the call raises AssertionError
\* when some member's nc differs from the first member's, and returns the
\* Ensemble when all nc are equal.
C3_ClassCounts ==
    /\ (pc = "done" /\ result.kind = "ensemble") =>
          \A j \in 1..Len(result.value) : result.value[j].nc = result.value[1].nc
    /\ (AllLoaded /\ Len(weights) >= 2) =>
          IF \E j \in 1..Len(model) : model[j].nc # model[1].nc
          THEN result = Raised("AssertionError")
          ELSE result.kind = "ensemble"

\* three checkpoints were loaded, the last with another class count than
\* the first two, and the call raised AssertionError
C3_Witness ==
    /\ fn = "attempt_load"
    /\ AllLoaded
    /\ Len(weights) = 3
    /\ model[2].nc = model[1].nc
    /\ model[3].nc # model[1].nc
    /\ result = Raised("AssertionError")

\* C4 as stated: whenever the first torch.load raised ModuleNotFoundError,
\* for any missing module name, and the handler has run, a warning was
\* logged, check_requirements was called with the missing module's name and
\* torch.load was called a second time on the file.
C4_AsStated ==
    (tsl.first \in MissingModules /\ pc # "except") =>
        /\ tsl.warned
        /\ tsl.installed = tsl.first
        /\ tsl.loads = 2

\* C5 as stated: when every checkpoint loads and has train_args,
\* attempt_load_weights with one weight returns the loaded model in eval
\* mode, and with k >= 2 weights of equal class count returns an Ensemble
\* of k models; the call does not raise.
C5_AsStated ==
    (fn = "attempt_load_weights" /\ AllLoaded
        /\ \A j \in 1..Len(weights) : weights[j].train_args) =>
        /\ Len(weights) = 1 =>
              (result.kind = "model" /\ InListedOrder /\ ~result.value[1].training)
        /\ (Len(weights) >= 2 /\ EqualNc) =>
              (result.kind = "ensemble" /\ InListedOrder)

\* C6 as stated: for every c2 >= 1 and kernel tuple k, under both channel
\* strategies, the per-branch channel counts of MixConv2d are non-negative
\* and sum to c2, so the concatenated output has the c2 channels
\* BatchNorm2d(c2) takes.
C6_AsStated ==
    /\ mc.stage \in {"built", "done"} =>
          /\ \A g \in 1..Len(mc.c_) : mc.c_[g] >= 0
          /\ SeqSum(mc.c_) = mc.c2
    /\ mc.stage = "done" => (mc.out = mc.c2 /\ mc.exc = None)

\* C7 as stated: after attempt_load returns, every detection head of the
\* returned model whose anchor_grid was not a list in the checkpoint has a
\* list of m.nl entries as anchor_grid, and the heads whose anchor_grid was
\* a list have it unchanged.
C7_AsStated ==
    (pc = "done" /\ result.kind \in {"model", "ensemble"}) =>
        \A j \in 1..Len(result.value) :
            \A p \in 1..Len(result.value[j].mods) :
                LET m == result.value[j].mods[p]
                    was == ModulesOf(weights[j].head)[p].anchor_grid
                IN  m.cls \in DetectClasses =>
                        m.anchor_grid = IF was.kind = "list" THEN was
                                        ELSE ListGrid(m.nl)

====
